---- MODULE Spec2Model ----
(***************************************************************************)
(* A model of the embedding/extraction engine of stego_cli.cpp: the header *)
(* record and its byte layout, the capacity policy, whole-file byte I/O on *)
(* a small file system, and the two pipelines hideFile and extractFile     *)
(* run by main().  Files are sequences of bytes (0..255), paths are        *)
(* sequences of character codes.                                           *)
(*                                                                         *)
(* Platform: size_t is 64 bits wide, uint32_t fields are 4-aligned and the *)
(* machine is little-endian (every mainstream ABI).  The struct is not     *)
(* packed, so sizeof(StegoHeader) is 276 and the object holds four padding *)
(* bytes whose values are indeterminate.                                   *)
(***************************************************************************)
EXTENDS Integers, Sequences, FiniteSets, TLC

\* ------------------------------------------------------------------------
\* Configuration constants (namespace Config)
\* ------------------------------------------------------------------------

\* MAX_HIDDEN_SIZE_RATIO = 0.85, as the fraction RatioNum / RatioDen
RatioNum == 85

RatioDen == 100

MIN_HOST_SIZE == 10240

\* 0x5354454E as two 16-bit halves: 0x5354 = 21332, 0x454E = 17742
MAGIC_SIGNATURE == [hi |-> 21332, lo |-> 17742]

VERSION == 1

MAX_FILENAME_LENGTH == 256

\* sizeof(StegoHeader): 4 + 2 + (2 padding) + 4 + 2 + 256 + (2 padding) + 4
SizeofStegoHeader == 276

\* Characters the path functions look for
Slash == 47

Backslash == 92

Dot == 46

\* ------------------------------------------------------------------------
\* Fixed-width unsigned integers
\* ------------------------------------------------------------------------

\* A uint32_t is kept as its two 16-bit halves, so that every value of the
\* type is representable and sums wrap modulo 2^32 as they do in C++.
U32OfNat(n) == [hi |-> (n \div 65536) % 65536, lo |-> n % 65536]

U32Add(a, b) ==
    LET l == a.lo + b.lo
    IN  [hi |-> (a.hi + b.hi + (l \div 65536)) % 65536, lo |-> l % 65536]

\* The four bytes of a uint32_t in memory order (little-endian)
U32Bytes(v) == <<v.lo % 256, v.lo \div 256, v.hi % 256, v.hi \div 256>>

U32FromBytes(b0, b1, b2, b3) == [hi |-> b2 + 256 * b3, lo |-> b0 + 256 * b1]

U16Bytes(n) == <<n % 256, n \div 256>>

U16FromBytes(b0, b1) == b0 + 256 * b1

\* v > k for a uint32_t v and a natural number k below 2^31
U32GtNat(v, k) ==
    \/ v.hi > k \div 65536
    \/ v.hi = k \div 65536 /\ v.lo > k % 65536

\* The natural number a uint32_t below 2^31 stands for
U32ToNat(v) == v.hi * 65536 + v.lo

\* n zero bytes (concatenation makes the value a tuple, which TLC indexes fast)
Zeros(n) == [i \in 1..n |-> 0] \o << >>

\* s[lo] + ... + s[hi], summed by halves to keep the recursion shallow
RECURSIVE SumRange(_, _, _)
SumRange(s, lo, hi) ==
    IF lo > hi THEN 0
    ELSE IF lo = hi THEN s[lo]
    ELSE LET mid == (lo + hi) \div 2
         IN  SumRange(s, lo, mid) + SumRange(s, mid + 1, hi)

\* The sum of the first n bytes of s
SumBytes(s, n) == SumRange(s, 1, n)

Min(a, b) == IF a < b THEN a ELSE b

\* ------------------------------------------------------------------------
\* Byte strings
\* ------------------------------------------------------------------------

\* The contents of files and buffers are byte strings.  The state keeps a
\* byte string packed, as the sequence of its maximal runs <<count, byte>>
\* (20,000 zero bytes are << <<20000, 0>> >>); two byte strings are equal
\* exactly when their packed forms are.  Pack and Unpack convert between a
\* sequence of bytes and its packed form.

\* n bytes of value b
Run(n, b) == IF n <= 0 THEN << >> ELSE << <<n, b>> >>

\* The concatenation of two packed strings
Cat(p, q) ==
    IF p = << >> THEN q
    ELSE IF q = << >> THEN p
    ELSE IF p[Len(p)][2] = q[1][2]
         THEN SubSeq(p, 1, Len(p) - 1) \o
              << <<p[Len(p)][1] + q[1][1], q[1][2]>> >> \o
              SubSeq(q, 2, Len(q))
         ELSE p \o q

RECURSIVE PackRange(_, _, _)
PackRange(s, lo, hi) ==
    IF lo > hi THEN << >>
    ELSE IF lo = hi THEN << <<1, s[lo]>> >>
    ELSE LET mid == (lo + hi) \div 2
         IN  Cat(PackRange(s, lo, mid), PackRange(s, mid + 1, hi))

Pack(s) == PackRange(s, 1, Len(s))

RECURSIVE UnpackRange(_, _, _)
UnpackRange(p, lo, hi) ==
    IF lo > hi THEN << >>
    ELSE IF lo = hi THEN [i \in 1..p[lo][1] |-> p[lo][2]] \o << >>
    ELSE LET mid == (lo + hi) \div 2
         IN  UnpackRange(p, lo, mid) \o UnpackRange(p, mid + 1, hi)

Unpack(p) == UnpackRange(p, 1, Len(p))

RECURSIVE SizeRange(_, _, _)
SizeRange(p, lo, hi) ==
    IF lo > hi THEN 0
    ELSE IF lo = hi THEN p[lo][1]
    ELSE LET mid == (lo + hi) \div 2
         IN  SizeRange(p, lo, mid) + SizeRange(p, mid + 1, hi)

\* The number of bytes of a packed string
Size(p) == SizeRange(p, 1, Len(p))

RECURSIVE TakeRange(_, _, _, _)
\* The first n bytes of the runs lo..hi of p (all of them if they are fewer)
TakeRange(p, lo, hi, n) ==
    IF n <= 0 \/ lo > hi THEN << >>
    ELSE IF lo = hi THEN << <<Min(n, p[lo][1]), p[lo][2]>> >>
    ELSE LET mid == (lo + hi) \div 2
             left == SizeRange(p, lo, mid)
         IN  IF n <= left
             THEN TakeRange(p, lo, mid, n)
             ELSE SubSeq(p, lo, mid) \o TakeRange(p, mid + 1, hi, n - left)

RECURSIVE DropRange(_, _, _, _)
\* The runs lo..hi of p without their first n bytes
DropRange(p, lo, hi, n) ==
    IF lo > hi THEN << >>
    ELSE IF n <= 0 THEN SubSeq(p, lo, hi)
    ELSE IF lo = hi THEN Run(p[lo][1] - n, p[lo][2])
    ELSE LET mid == (lo + hi) \div 2
             left == SizeRange(p, lo, mid)
         IN  IF n >= left
             THEN DropRange(p, mid + 1, hi, n - left)
             ELSE DropRange(p, lo, mid, n) \o SubSeq(p, mid + 1, hi)

Take(p, n) == TakeRange(p, 1, Len(p), n)

Drop(p, n) == DropRange(p, 1, Len(p), n)

\* The n bytes of p that start at offset from (0-based)
Part(p, from, n) == Take(Drop(p, from), n)

\* ------------------------------------------------------------------------
\* Utils
\* ------------------------------------------------------------------------

\* string::find_last_of: the largest index (1-based) holding one of chars,
\* 0 for npos
FindLastOf(s, chars) ==
    LET hits == {i \in 1..Len(s) : s[i] \in chars}
    IN  IF hits = {} THEN 0 ELSE CHOOSE i \in hits : \A j \in hits : j <= i

\* extractFilename with substr(pos) for substr(pos + 1): the separator stays
extractFilenameKeepSep(fullPath) ==
    LET pos == FindLastOf(fullPath, {Slash, Backslash})
    IN  IF pos = 0 THEN fullPath ELSE SubSeq(fullPath, pos, Len(fullPath))

extractFilename(fullPath) ==
    LET pos == FindLastOf(fullPath, {Slash, Backslash})
    IN  IF pos = 0 THEN fullPath ELSE SubSeq(fullPath, pos + 1, Len(fullPath))

ToLower(c) == IF c >= 65 /\ c <= 90 THEN c + 32 ELSE c

getExtension(filename) ==
    LET pos == FindLastOf(filename, {Dot})
    IN  IF pos = 0
        THEN << >>
        ELSE [i \in 1..(Len(filename) - pos + 1) |->
                 ToLower(filename[pos + i - 1])] \o << >>

\* "extracted_"
ExtractedPrefix == <<101, 120, 116, 114, 97, 99, 116, 101, 100, 95>>

generateOutputFilename(userProvidedPath, originalFilename) ==
    IF userProvidedPath = << >>
    THEN ExtractedPrefix \o originalFilename
    ELSE LET outputDotPos == FindLastOf(userProvidedPath, {Dot})
             outputSlashPos == FindLastOf(userProvidedPath, {Slash, Backslash})
             hasExtension == outputDotPos # 0 /\
                             (outputSlashPos = 0 \/ outputDotPos > outputSlashPos)
         IN  IF hasExtension
             THEN userProvidedPath
             ELSE userProvidedPath \o getExtension(originalFilename)

\* ------------------------------------------------------------------------
\* StegoHeader
\* ------------------------------------------------------------------------

\* The object as the default constructor leaves it; pad holds the padding
\* bytes (offsets 6, 7, 270, 271), which no constructor writes.
StegoHeader(pad) ==
    [magic |-> MAGIC_SIGNATURE, version |-> VERSION,
     hiddenFileSize |-> U32OfNat(0), filenameLength |-> 0,
     filename |-> Zeros(MAX_FILENAME_LENGTH), checksum |-> U32OfNat(0),
     pad |-> pad]

\* calculateChecksum with the filename bytes added as signed char values
calculateChecksumSigned(h) ==
    LET n == Min(h.filenameLength, MAX_FILENAME_LENGTH)
        high == Cardinality({i \in 1..n : h.filename[i] > 127})
        borrow == IF high = 0 THEN U32OfNat(0)
                  ELSE [hi |-> 65535, lo |-> 65536 - 256 * high]
    IN  U32Add(U32Add(U32Add(U32Add(U32Add(h.magic, U32OfNat(h.version)),
                                    h.hiddenFileSize),
                             U32OfNat(h.filenameLength)),
                      U32OfNat(SumBytes(h.filename, n))),
               borrow)

calculateChecksum(h) ==
    LET n == Min(h.filenameLength, MAX_FILENAME_LENGTH)
    IN  U32Add(U32Add(U32Add(U32Add(h.magic, U32OfNat(h.version)),
                             h.hiddenFileSize),
                      U32OfNat(h.filenameLength)),
               U32OfNat(SumBytes(h.filename, n)))

\* validate without the checksum comparison
validateMagicOnly(h) == h.magic = MAGIC_SIGNATURE

\* validate with a test of the version added
validateVersionToo(h) ==
    h.magic = MAGIC_SIGNATURE /\ h.version = VERSION /\ h.checksum = calculateChecksum(h)

validate(h) == h.magic = MAGIC_SIGNATURE /\ h.checksum = calculateChecksum(h)

\* strncpy(dest, src, n) followed by dest[n] = 0, on a zero-filled field:
\* the first n characters of src, then zeros
CopyName(name, n) == SubSeq(name, 1, n) \o Zeros(MAX_FILENAME_LENGTH - n)

createHeader(hiddenFilename, hiddenSize, pad) ==
    LET filename == extractFilename(hiddenFilename)
        len == Min(Len(filename), MAX_FILENAME_LENGTH - 1)
        h == [StegoHeader(pad) EXCEPT
                 !.hiddenFileSize = U32OfNat(hiddenSize),
                 !.filenameLength = len,
                 !.filename = CopyName(filename, len)]
    IN  [h EXCEPT !.checksum = calculateChecksum(h)]

\* memcpy of the object: the fields at their offsets, padding included
serializeHeader(h) ==
    U32Bytes(h.magic) \o U16Bytes(h.version) \o <<h.pad[1], h.pad[2]>> \o
    U32Bytes(h.hiddenFileSize) \o U16Bytes(h.filenameLength) \o
    h.filename \o <<h.pad[3], h.pad[4]>> \o U32Bytes(h.checksum)

\* memcpy into the object (the caller has checked the buffer's size)
deserializeHeader(b) ==
    [magic |-> U32FromBytes(b[1], b[2], b[3], b[4]),
     version |-> U16FromBytes(b[5], b[6]),
     hiddenFileSize |-> U32FromBytes(b[9], b[10], b[11], b[12]),
     filenameLength |-> U16FromBytes(b[13], b[14]),
     filename |-> SubSeq(b, 15, 270),
     checksum |-> U32FromBytes(b[273], b[274], b[275], b[276]),
     pad |-> <<b[7], b[8], b[271], b[272]>>]

\* The scan's test of the window at offset i (0-based) of data, a sequence of
\* bytes.  header.magic is the window's first four bytes, so the test reads
\* them in place and copies the window only when they match.
HeaderAt(data, i) == deserializeHeader(SubSeq(data, i + 1, i + SizeofStegoHeader))

\* The bytes of MAGIC_SIGNATURE in memory order: 4E 45 54 53
MagicLE == U32Bytes(MAGIC_SIGNATURE)

MagicAt(data, i) ==
    /\ data[i + 1] = MagicLE[1]
    /\ data[i + 2] = MagicLE[2]
    /\ data[i + 3] = MagicLE[3]
    /\ data[i + 4] = MagicLE[4]

ProbeValid(data, i) == MagicAt(data, i) /\ validate(HeaderAt(data, i))

\* The offsets the for-loop of extractFile visits: size - sizeof down to 1
ScanRange(size) == 1..(size - SizeofStegoHeader)

\* ScanBackwards with found left true when the loop ends without a match
ScanBackwardsFoundAnyway(data) ==
    LET hits == {i \in ScanRange(Len(data)) : ProbeValid(data, i)}
    IN  IF hits = {}
        THEN [found |-> TRUE, headerOffset |-> Len(data) - SizeofStegoHeader]
        ELSE [found |-> TRUE,
              headerOffset |-> CHOOSE i \in hits : \A j \in hits : j <= i]

\* ScanBackwards with headerOffset left one below the window that matched
ScanBackwardsOneBelow(data) ==
    LET hits == {i \in ScanRange(Len(data)) : ProbeValid(data, i)}
    IN  IF hits = {}
        THEN [found |-> FALSE, headerOffset |-> Len(data) - SizeofStegoHeader]
        ELSE [found |-> TRUE,
              headerOffset |-> (CHOOSE i \in hits : \A j \in hits : j <= i) - 1]

\* ScanBackwards going up from offset 1: the smallest valid offset
ScanBackwardsLowest(data) ==
    LET hits == {i \in ScanRange(Len(data)) : ProbeValid(data, i)}
    IN  IF hits = {}
        THEN [found |-> FALSE, headerOffset |-> Len(data) - SizeofStegoHeader]
        ELSE [found |-> TRUE,
              headerOffset |-> CHOOSE i \in hits : \A j \in hits : i <= j]

\* The loop breaks at the first valid window it meets going down, which is
\* the largest valid offset of its range; found is false when there is none.
ScanBackwards(data) ==
    LET hits == {i \in ScanRange(Len(data)) : ProbeValid(data, i)}
    IN  IF hits = {}
        THEN [found |-> FALSE, headerOffset |-> Len(data) - SizeofStegoHeader]
        ELSE [found |-> TRUE,
              headerOffset |-> CHOOSE i \in hits : \A j \in hits : j <= i]

\* ------------------------------------------------------------------------
\* FileValidator
\* ------------------------------------------------------------------------

NoError == [kind |-> "none", what |-> "none"]

Throw(kind, what) == [kind |-> kind, what |-> what]

\* ifstream(filename).good(): the file can be opened for reading
fileExists(files, filename) == filename \in DOMAIN files

\* stat(): the size, or 0 when stat fails
getFileSize(files, filename) ==
    IF filename \in DOMAIN files THEN Size(files[filename]) ELSE 0

validateFileAccess(files, filename) ==
    IF filename = << >>
    THEN Throw("FileAccessException", "path cannot be empty")
    ELSE IF ~fileExists(files, filename)
         THEN Throw("FileAccessException", "not found or not accessible")
         ELSE NoError

\* static_cast<size_t>(hostSize * 0.85): the product is computed in double
\* and truncated; for every size below 2^31 that is floor(85 * hostSize / 100)
ScaleByRatio(hostSize) == (hostSize * RatioNum) \div RatioDen

\* validateAndCalculateMaxSize with hiddenSize >= maxHiddenSize for the
\* test hiddenSize > maxHiddenSize
validateAndCalculateMaxSizeStrict(hiddenSz, hostSz) ==
    IF hostSz < MIN_HOST_SIZE
    THEN [error |-> Throw("FileSizeException", "Host file too small"), value |-> 0]
    ELSE IF hiddenSz >= ScaleByRatio(hostSz) - SizeofStegoHeader
         THEN [error |-> Throw("FileSizeException",
                               "The file to hide exceeds the allowable size"),
               value |-> 0]
         ELSE [error |-> NoError,
               value |-> ScaleByRatio(hostSz) - SizeofStegoHeader]

\* validateAndCalculateMaxSize with hostSize <= MIN_HOST_SIZE for the test
\* hostSize < MIN_HOST_SIZE
validateAndCalculateMaxSizeOverMin(hiddenSz, hostSz) ==
    IF hostSz <= MIN_HOST_SIZE
    THEN [error |-> Throw("FileSizeException", "Host file too small"), value |-> 0]
    ELSE IF hiddenSz > ScaleByRatio(hostSz) - SizeofStegoHeader
         THEN [error |-> Throw("FileSizeException",
                               "The file to hide exceeds the allowable size"),
               value |-> 0]
         ELSE [error |-> NoError,
               value |-> ScaleByRatio(hostSz) - SizeofStegoHeader]

\* The result of validateAndCalculateMaxSize: the exception it throws, or
\* the value it returns
validateAndCalculateMaxSize(hiddenSz, hostSz) ==
    IF hostSz < MIN_HOST_SIZE
    THEN [error |-> Throw("FileSizeException", "Host file too small"), value |-> 0]
    ELSE IF ScaleByRatio(hostSz) < SizeofStegoHeader
         THEN [error |-> Throw("FileSizeException",
                               "Host file too small to hide any data"),
               value |-> 0]
         ELSE IF hiddenSz > ScaleByRatio(hostSz) - SizeofStegoHeader
              THEN [error |-> Throw("FileSizeException",
                                    "The file to hide exceeds the allowable size"),
                    value |-> 0]
              ELSE [error |-> NoError,
                    value |-> ScaleByRatio(hostSz) - SizeofStegoHeader]

\* ------------------------------------------------------------------------
\* The files and arguments the model runs on
\* ------------------------------------------------------------------------

\* Hosts of MIN_HOST_SIZE - 1 up to MIN_HOST_SIZE + MaxHostExtra bytes
MaxHostExtra == 1

\* Payloads of capacity up to capacity + MaxOver bytes, for every host
MaxOver == 1

\* Payload file names of 254 up to 255 + MaxNameExtra characters
MaxNameExtra == 1

\* The indeterminate values the four padding bytes of a header may hold
PadChoices == {<<0, 0, 0, 0>>, <<78, 69, 222, 173>>}

\* "cover<k>.png": a host of MIN_HOST_SIZE + k bytes
CoverPath(k) == <<99, 111, 118, 101, 114>> \o <<48 + k>> \o <<46, 112, 110, 103>>

\* "small.png": a host one byte below the minimum
SmallPath == <<115, 109, 97, 108, 108, 46, 112, 110, 103>>

\* "zeros.BIN": 20,000 zero bytes
ZerosPath == <<122, 101, 114, 111, 115, 46, 66, 73, 78>>

\* n bytes: 89 50 4E 47, zeros, 49 45 4E 44
CoverBytes(n) ==
    Cat(Cat(Pack(<<137, 80, 78, 71>>), Run(n - 8, 0)), Pack(<<73, 69, 78, 68>>))

CoverSizes == {MIN_HOST_SIZE + k : k \in 0..MaxHostExtra} \cup {20000}

Capacity(hostSz) == ScaleByRatio(hostSz) - SizeofStegoHeader

\* "hello.txt", "empty.dat", "magic.bin", "fake.bin", "long.bin",
\* "plain.bin", "missing.bin"
HelloPath == <<104, 101, 108, 108, 111, 46, 116, 120, 116>>

EmptyPath == <<101, 109, 112, 116, 121, 46, 100, 97, 116>>

MagicPath == <<109, 97, 103, 105, 99, 46, 98, 105, 110>>

FakePath == <<102, 97, 107, 101, 46, 98, 105, 110>>

LongPath == <<108, 111, 110, 103, 46, 98, 105, 110>>

PlainPath == <<112, 108, 97, 105, 110, 46, 98, 105, 110>>

MissingPath == <<109, 105, 115, 115, 105, 110, 103, 46, 98, 105, 110>>

\* "docs/host": a host of MIN_HOST_SIZE bytes whose name has no extension
BarePath == <<100, 111, 99, 115, 47, 104, 111, 115, 116>>

\* "NOTES.TXT", "README": payloads named with an upper-case extension and
\* with none
NotesPath == <<78, 79, 84, 69, 83, 46, 84, 88, 84>>

ReadmePath == <<82, 69, 65, 68, 77, 69>>

\* "caf\303\251.txt": a payload whose name holds bytes above 127
CafePath == <<99, 97, 102, 195, 169, 46, 116, 120, 116>>

\* "longname.bin", "inject.bin", "head0.bin": files made by hand
LongNamePath == <<108, 111, 110, 103, 110, 97, 109, 101, 46, 98, 105, 110>>

InjectPath == <<105, 110, 106, 101, 99, 116, 46, 98, 105, 110>>

Head0Path == <<104, 101, 97, 100, 48, 46, 98, 105, 110>>

\* "NETS": a payload named with the four bytes of the magic constant that
\* holds those bytes again at offset 10
NetsPath == <<78, 69, 84, 83>>

NetsBytes == Pack(<<48, 49, 50, 51, 52, 53, 54, 55, 56, 57, 78, 69, 84, 83>>)

\* "Output file: x", "extracted FILE: y": payloads named with the labels of
\* the report lines
OutputNamedPath == <<79, 117, 116, 112, 117, 116, 32, 102, 105, 108, 101, 58, 32, 120>>

ExtractedNamedPath ==
    <<101, 120, 116, 114, 97, 99, 116, 101, 100, 32, 70, 73, 76, 69, 58, 32, 121>>

\* "full.bin": a file made by hand
FullPath == <<102, 117, 108, 108, 46, 98, 105, 110>>

\* "edge.bin": 274 zero bytes
EdgePath == <<101, 100, 103, 101, 46, 98, 105, 110>>

\* "docs/aaa...a.txt" with a final component of n characters
NamedPath(n) == <<100, 111, 99, 115, 47>> \o [i \in 1..(n - 4) |-> 97] \o <<46, 116, 120, 116>>

RECURSIVE Decimal(_)
Decimal(n) == IF n < 10 THEN <<48 + n>> ELSE Decimal(n \div 10) \o <<48 + (n % 10)>>

\* "b<size>.bin": a payload of exactly size bytes
BoundaryPath(size) == <<98>> \o Decimal(size) \o <<46, 98, 105, 110>>

BoundarySizes == {Capacity(h) + d : h \in CoverSizes, d \in 0..MaxOver}

NameLengths == 254..(255 + MaxNameExtra)

\* A payload that holds the magic constant's bytes where the checksum
\* equation fails, far enough from its end for the scan to probe them
MagicBytes == Pack(<<1, 2, 3>> \o U32Bytes(MAGIC_SIGNATURE) \o Zeros(300))

\* A payload that holds a complete checksum-valid header (for "x.dat", two
\* bytes) followed by three bytes
FakeBytes ==
    Pack(<<7>> \o serializeHeader(createHeader(<<120, 46, 100, 97, 116>>, 2, <<0, 0, 0, 0>>)) \o
         <<9, 8, 7>>)

\* A payload that holds a checksum-valid header announcing more bytes than
\* follow it
LongBytes ==
    Pack(serializeHeader(createHeader(<<121, 46, 100, 97, 116>>, 40000, <<0, 0, 0, 0>>)) \o
         <<5, 5>>)

CoverOf(k) == CoverBytes(MIN_HOST_SIZE + k)

\* A header with the given fields and the checksum that matches them
MadeHeader(name, nameLength, size) ==
    LET h == [StegoHeader(<<0, 0, 0, 0>>) EXCEPT
                 !.hiddenFileSize = U32OfNat(size),
                 !.filenameLength = nameLength,
                 !.filename = name \o Zeros(MAX_FILENAME_LENGTH - Len(name))]
    IN  [h EXCEPT !.checksum = calculateChecksum(h)]

\* A byte, a checksum-valid header with filenameLength 300 for "n.txt" and
\* one byte, and that byte
LongNameBytes ==
    Pack(<<7>> \o serializeHeader(MadeHeader(<<110, 46, 116, 120, 116>>, 300, 1)) \o <<9>>)

\* "a", a line feed, "Extracted file: x"
InjectName == <<97, 10, 69, 120, 116, 114, 97, 99, 116, 101, 100, 32, 102, 105, 108, 101, 58, 32, 120>>

\* A byte, a checksum-valid header for InjectName announcing 50 bytes, and
\* two bytes
InjectBytes ==
    Pack(<<7>> \o serializeHeader(MadeHeader(InjectName, Len(InjectName), 50)) \o <<9, 8>>)

\* A checksum-valid header at offset 0 for "z.dat" and one byte, that byte,
\* and 300 zero bytes
Head0Bytes ==
    Pack(serializeHeader(MadeHeader(<<122, 46, 100, 97, 116>>, 5, 1)) \o <<9>> \o Zeros(300))

\* A byte, a checksum-valid header whose filename field holds 256 letters
\* and no NUL, with filenameLength 255, padding bytes 1 and one byte
\* announced, and that byte
FullBytes ==
    Pack(<<7>> \o
         serializeHeader([MadeHeader([i \in 1..MAX_FILENAME_LENGTH |-> 65] \o << >>,
                                     MAX_FILENAME_LENGTH - 1, 1)
                             EXCEPT !.pad = <<1, 1, 1, 1>>]) \o
         <<9>>)

\* n bytes: 42, then 41s
FillOf(n) == Cat(Run(Min(n, 1), 66), Run(n - 1, 65))

\* The files that exist before the first run, as <<path, bytes>> pairs
InitialPairs ==
    {<<CoverPath(k), CoverOf(k)>> : k \in 0..MaxHostExtra} \cup
    {<<BoundaryPath(s), FillOf(s)>> : s \in BoundarySizes} \cup
    {<<NamedPath(n), Pack(<<104, 105>>)>> : n \in NameLengths} \cup
    {<<SmallPath, CoverBytes(MIN_HOST_SIZE - 1)>>,
     <<ZerosPath, Run(20000, 0)>>,
     <<HelloPath, Pack(<<104, 101, 108, 108, 111>>)>>,
     <<EmptyPath, << >> >>,
     <<MagicPath, MagicBytes>>,
     <<FakePath, FakeBytes>>,
     <<LongPath, LongBytes>>,
     <<PlainPath, CoverBytes(300)>>,
     <<BarePath, CoverBytes(MIN_HOST_SIZE)>>,
     <<NotesPath, Pack(<<110, 111, 116, 101>>)>>,
     <<ReadmePath, Pack(<<114, 101, 97, 100>>)>>,
     <<CafePath, Pack(<<99, 97, 102, 101>>)>>,
     <<LongNamePath, LongNameBytes>>,
     <<InjectPath, InjectBytes>>,
     <<Head0Path, Head0Bytes>>,
     <<EdgePath, Run(274, 0)>>,
     <<FullPath, FullBytes>>,
     <<OutputNamedPath, Pack(<<111, 110, 101>>)>>,
     <<ExtractedNamedPath, Pack(<<116, 119, 111>>)>>,
     <<NetsPath, NetsBytes>>}

InitialFiles ==
    [p \in {x[1] : x \in InitialPairs} |-> (CHOOSE x \in InitialPairs : x[1] = p)[2]]

HostArgs == {CoverPath(k) : k \in 0..MaxHostExtra} \cup {SmallPath, ZerosPath}

HiddenArgs ==
    {BoundaryPath(s) : s \in BoundarySizes} \cup {NamedPath(n) : n \in NameLengths} \cup
    {HelloPath, EmptyPath, MagicPath, FakePath, LongPath}

\* "out", the output path of most encode runs
OutPath == <<111, 117, 116>>

\* "", "out.PNG", "out.", "docs/r", "o.d/x" (there is no directory o.d)
EncodeOutArgs ==
    {<< >>, <<111, 117, 116, 46, 80, 78, 71>>, <<111, 117, 116, 46>>,
     <<100, 111, 99, 115, 47, 114>>, <<111, 46, 100, 47, 120>>}

\* The encode runs of the model, as <<coverImage, secretFile, outputImage>>:
\* every host with every payload, written to "out"; and the hosts and
\* payloads whose names matter, with every output path
EncodeRuns ==
    {<<c, s, OutPath>> : c \in HostArgs, s \in HiddenArgs} \cup
    {<<c, HelloPath, o>> : c \in {CoverPath(0), ZerosPath, BarePath}, o \in EncodeOutArgs} \cup
    {<<CoverPath(0), s, OutPath>> : s \in {NotesPath, ReadmePath, CafePath, OutputNamedPath, ExtractedNamedPath}} \cup
    {<<BarePath, HelloPath, OutPath>>}

\* "", "rec", "rec.dat"
DecodeOutArgs == {<< >>, <<114, 101, 99>>, <<114, 101, 99, 46, 100, 97, 116>>}

\* Files that no embed wrote, given to decode
RawArgs ==
    {PlainPath, HelloPath, MissingPath, << >>, LongNamePath, InjectPath, Head0Path,
     EdgePath, FullPath}

\* ------------------------------------------------------------------------
\* State
\* ------------------------------------------------------------------------

VARIABLES
    fs,                \* the file system: path -> bytes, for the files that exist
    pc,                \* where the running process is ("idle" before any run)
    mode,              \* argv[1] of the process: "encode" or "decode"
    hiddenFilePath,    \* the engine's three fields
    hostFilePath,
    outputFilePath,
    hiddenSize,        \* locals of hideFile
    hostSize,
    maxAllowed,
    hostData,
    output,
    finalOutputPath,
    data,              \* locals of extractFile
    found,
    headerOffset,
    extractedFilename,
    header,            \* local of both
    hiddenData,        \* local of both
    error,             \* the exception main() caught, NoError if none
    exitCode,          \* the value main() returned, -1 while none
    stdout,            \* what the process wrote to cout, statement by statement
    stderr,            \* what the process wrote to cerr
    embedded,          \* history: what the last successful hideFile wrote, and
                       \* the payloads its host already held
    tamper,            \* history: what was done to that file afterwards
    subject,           \* a header handed to validate() on its own
    verdict,           \* << >> before the call, <<what validate() returned>> after
    large,             \* hideFile on files of 2^32 bytes and more: the sizes as
                       \* size_t values, the step reached, the header built
    writers,           \* two processes in writeFile on one path: where each is
    finished           \* those processes, in the order their writes ended

engine == <<hiddenFilePath, hostFilePath, outputFilePath>>

hideLocals == <<hiddenSize, hostSize, maxAllowed, hostData, output, finalOutputPath>>

extractLocals == <<data, found, headerOffset, extractedFilename>>

history == <<embedded, tamper>>

streams == <<stdout, stderr>>

\* The variables of a run of the program
run == <<fs, pc, mode, engine, hideLocals, extractLocals, header, hiddenData,
         error, exitCode, streams, history>>

\* The variables of a call of validate() on its own
call == <<subject, verdict, large>>

\* The variables of two concurrent calls of writeFile
race == <<writers, finished>>

vars == <<run, call, race>>

NoEmbed ==
    [path |-> << >>, hostPath |-> << >>, hiddenPath |-> << >>, offset |-> 0,
     earlier |-> << >>]

NoTamper == [field |-> "none", fixed |-> FALSE]

\* Before any process has run
NoRun ==
    /\ fs = InitialFiles
    /\ pc = "idle"
    /\ mode = "none"
    /\ hiddenFilePath = << >> /\ hostFilePath = << >> /\ outputFilePath = << >>
    /\ hiddenSize = 0 /\ hostSize = 0 /\ maxAllowed = 0
    /\ hostData = << >> /\ output = << >> /\ finalOutputPath = << >>
    /\ data = << >> /\ found = FALSE /\ headerOffset = 0
    /\ extractedFilename = << >>
    /\ header = StegoHeader(<<0, 0, 0, 0>>)
    /\ hiddenData = << >>
    /\ error = NoError
    /\ exitCode = -1
    /\ stdout = << >>
    /\ stderr = << >>
    /\ embedded = NoEmbed
    /\ tamper = NoTamper

\* A size_t value: four 16-bit limbs, the lowest first
WideOfNat(n) == <<n % 65536, n \div 65536, 0, 0>>

NoLarge ==
    [step |-> "none", hiddenSize |-> WideOfNat(0), hostSize |-> WideOfNat(0),
     error |-> [kind |-> "none", what |-> "none"],
     header |-> StegoHeader(<<0, 0, 0, 0>>)]

\* No header is handed to validate() on its own
NoCall ==
    /\ subject = StegoHeader(<<0, 0, 0, 0>>)
    /\ verdict = << >>
    /\ large = NoLarge

\* No two processes write one path
NoRace ==
    /\ writers = << >>
    /\ finished = << >>

Init == NoRun /\ NoCall /\ NoRace

\* ------------------------------------------------------------------------
\* FileIOManager
\* ------------------------------------------------------------------------

\* readFile: the exception it throws, or the bytes it returns
readFile(files, filename) ==
    IF filename \in DOMAIN files
    THEN [error |-> NoError, value |-> files[filename]]
    ELSE [error |-> Throw("FileAccessException", "Cannot open file for reading"),
          value |-> << >>]

\* ofstream(filename) opens: the name is not empty and its directory exists
\* (the working directory and docs/ do)
CanCreate(filename) ==
    /\ filename # << >>
    /\ LET pos == FindLastOf(filename, {Slash})
       IN  /\ pos < Len(filename)
           /\ SubSeq(filename, 1, pos) \in {<< >>, <<100, 111, 99, 115, 47>>}

\* writeFile: the exception it throws and the file system it leaves
writeFile(files, filename, bytes) ==
    IF CanCreate(filename)
    THEN [error |-> NoError, files |-> (filename :> bytes) @@ files]
    ELSE [error |-> Throw("FileAccessException", "Cannot create output file"),
          files |-> files]

\* ------------------------------------------------------------------------
\* main() and the two pipelines
\* ------------------------------------------------------------------------

\* A statement cout << ... << endl: its fixed text, then the characters of a
\* name or path it inserts, then the fixed text after them.  In the fixed
\* texts the rules and the marks are written "----" and "*", what
\* formatBytes returns (digits, a dot, a blank and a unit) is written
\* "<size>", and blank lines are left out.
Say(label) == [label |-> label, text |-> << >>, rest |-> ""]

SayText(label, text, rest) == [label |-> label, text |-> text, rest |-> rest]

\* The three statements that open and close a pipeline
Banner(title) == <<Say("----"), Say(title), Say("----")>>

\* printUsage()
Usage ==
    <<Say("Usage:"),
      Say("  Encode: stego encode <cover_image> <secret_file> <output_image>"),
      Say("  Decode: stego decode <stego_image> <output_file>")>>

\* cerr << "ERROR: " << what << endl
Complain(what) == [label |-> "ERROR: ", what |-> what]

\* An exception leaves the pipeline; main() catches it, reports it on cerr
\* and returns 1
Fail(e) ==
    /\ error' = e
    /\ stderr' = Append(stderr, Complain(e.what))
    /\ exitCode' = 1
    /\ pc' = "exit"

\* The pipeline goes on to its next step
Proceed(next) ==
    /\ pc' = next
    /\ UNCHANGED <<error, exitCode, stderr>>

\* Argument lists (argv[1..]) that main() rejects
BadArgLists ==
    {<< >>, <<"encode">>, <<"encode", "a", "b">>, <<"encode", "a", "b", "c", "d">>,
     <<"decode", "a">>, <<"decode", "a", "b", "c">>,
     <<"hide", "a", "b", "c">>, <<"ENCODE", "a", "b", "c">>}

\* main() with no mode, a wrong number of arguments for the mode, or an
\* unknown mode: it returns 1 before any engine is made
BadArguments(args) ==
    /\ pc = "idle"
    /\ args \in BadArgLists
    /\ IF Len(args) = 0
       THEN /\ stdout' = Usage
            /\ UNCHANGED <<mode, stderr>>
       ELSE /\ mode' = args[1]
            /\ stdout' = Usage
            /\ stderr' =
                  <<Complain(IF args[1] = "encode" THEN "Encode requires 3 arguments"
                             ELSE IF args[1] = "decode" THEN "Decode requires 2 arguments"
                             ELSE "Invalid mode. Use 'encode' or 'decode'")>>
    /\ exitCode' = 1
    /\ pc' = "exitUsage"
    /\ UNCHANGED <<fs, engine, hideLocals, extractLocals, header, hiddenData,
                   error, history, call, race>>

\* main(), mode "encode": UniversalSteganography(secretFile, coverImage,
\* outputImage).hideFile()
StartEncode(coverImage, secretFile, outputImage) ==
    /\ pc = "idle"
    /\ mode' = "encode"
    /\ hiddenFilePath' = secretFile
    /\ hostFilePath' = coverImage
    /\ outputFilePath' = outputImage
    /\ pc' = "hide1"
    /\ stdout' = Banner("  INITIATING FILE HIDING PROCESS")
    /\ UNCHANGED <<fs, hideLocals, extractLocals, header, hiddenData, error,
                   exitCode, stderr, history, call, race>>

\* [1/5] Validating file access
Hide1 ==
    /\ pc = "hide1"
    /\ LET e1 == validateFileAccess(fs, hiddenFilePath)
           e2 == validateFileAccess(fs, hostFilePath)
           said == Append(stdout, Say("[1/5] Validating file access..."))
       IN  IF e1 # NoError THEN Fail(e1) /\ stdout' = said
           ELSE IF e2 # NoError THEN Fail(e2) /\ stdout' = said
           ELSE /\ Proceed("hide2")
                /\ stdout' = Append(said, Say("      * Files validated successfully"))
    /\ UNCHANGED <<fs, mode, engine, hideLocals, extractLocals, header,
                   hiddenData, history, call, race>>

\* [2/5] Analyzing file sizes
Hide2 ==
    /\ pc = "hide2"
    /\ hiddenSize' = getFileSize(fs, hiddenFilePath)
    /\ hostSize' = getFileSize(fs, hostFilePath)
    /\ pc' = "hide3"
    /\ stdout' = stdout \o
          <<Say("[2/5] Analyzing file sizes..."),
            SayText("      * File to hide: <size> (", extractFilename(hiddenFilePath), ")"),
            SayText("      * Host file: <size> (", extractFilename(hostFilePath), ")")>>
    /\ UNCHANGED <<fs, mode, engine, maxAllowed, hostData, output,
                   finalOutputPath, extractLocals, header, hiddenData, error,
                   exitCode, stderr, history, call, race>>

\* [3/5] Checking size constraints
Hide3 ==
    /\ pc = "hide3"
    /\ LET r == validateAndCalculateMaxSize(hiddenSize, hostSize)
           said == Append(stdout, Say("[3/5] Checking size constraints..."))
       IN  IF r.error # NoError
           THEN Fail(r.error) /\ stdout' = said /\ UNCHANGED maxAllowed
           ELSE /\ maxAllowed' = r.value
                /\ Proceed("hide4")
                /\ stdout' = said \o
                      <<Say("      * Size check passed"),
                        Say("      * Capacity utilization: <percent>%"),
                        Say("      * Remaining capacity: <size>")>>
    /\ UNCHANGED <<fs, mode, engine, hiddenSize, hostSize, hostData, output,
                   finalOutputPath, extractLocals, header, hiddenData, history,
                   call, race>>

\* [4/5] Reading files
Hide4 ==
    /\ pc = "hide4"
    /\ LET r1 == readFile(fs, hostFilePath)
           r2 == readFile(fs, hiddenFilePath)
           said == Append(stdout, Say("[4/5] Reading files..."))
       IN  IF r1.error # NoError
           THEN Fail(r1.error) /\ stdout' = said /\ UNCHANGED <<hostData, hiddenData>>
           ELSE IF r2.error # NoError
                THEN /\ Fail(r2.error) /\ stdout' = said
                     /\ hostData' = r1.value /\ UNCHANGED hiddenData
           ELSE /\ hostData' = r1.value
                /\ hiddenData' = r2.value
                /\ Proceed("hide5")
                /\ stdout' = Append(said, Say("      * Files loaded into memory"))
    /\ UNCHANGED <<fs, mode, engine, hiddenSize, hostSize, maxAllowed, output,
                   finalOutputPath, extractLocals, header, history, call, race>>

\* BuildOutput with the last two inserts swapped
BuildOutputHeaderLast(hostBytes, headerBytes, hiddenBytes) ==
    Cat(Cat(hostBytes, hiddenBytes), headerBytes)

\* output.insert(host); output.insert(header); output.insert(hidden)
BuildOutput(hostBytes, headerBytes, hiddenBytes) ==
    Cat(Cat(hostBytes, headerBytes), hiddenBytes)

\* [5/5] Embedding hidden file: the header, the output buffer, the final
\* path and the write.  pad is what the header's padding bytes hold.
Hide5(pad) ==
    /\ pc = "hide5"
    /\ LET h == createHeader(hiddenFilePath, hiddenSize, pad)
           out == BuildOutput(hostData, Pack(serializeHeader(h)), hiddenData)
           path == generateOutputFilename(outputFilePath,
                                          extractFilename(hostFilePath))
           w == writeFile(fs, path, out)
       IN  /\ header' = h
           /\ output' = out
           /\ finalOutputPath' = path
           /\ fs' = w.files
           /\ IF w.error # NoError THEN Fail(w.error) ELSE Proceed("hideReport")
    /\ stdout' = Append(stdout, Say("[5/5] Embedding hidden file..."))
    /\ UNCHANGED <<mode, engine, hiddenSize, hostSize, maxAllowed, hostData,
                   extractLocals, hiddenData, history, call, race>>

\* A char array read as a C string: the bytes before the first NUL
CString(chars) ==
    LET nuls == {i \in 1..Len(chars) : chars[i] = 0}
    IN  IF nuls = {}
        THEN chars
        ELSE SubSeq(chars, 1, (CHOOSE i \in nuls : \A j \in nuls : i <= j) - 1)

\* What may lie beyond a header object on the stack, up to the first NUL
BeyondChoices == {<< >>, <<33>>}

\* header.filename read as a C string by operator<< and by std::string: the
\* bytes of the field before its first NUL.  When the field holds no NUL the
\* read runs on through the padding and the checksum field, and then beyond
\* the object, where it finds bytes that nothing defines.
NameStrings(h) ==
    LET rest == <<h.pad[3], h.pad[4]>> \o U32Bytes(h.checksum)
    IN  IF \E i \in 1..Len(h.filename) : h.filename[i] = 0
        THEN {CString(h.filename)}
        ELSE IF \E i \in 1..Len(rest) : rest[i] = 0
             THEN {h.filename \o CString(rest)}
             ELSE {h.filename \o rest \o beyond : beyond \in BeyondChoices}

\* The report statements; hideFile returns and main() returns 0
HideReport ==
    /\ pc = "hideReport"
    /\ pc' = "exit"
    /\ exitCode' = 0
    /\ stdout' = stdout \o <<Say("      * File embedded successfully")>> \o
          Banner("  * OPERATION COMPLETED SUCCESSFULLY") \o
          <<SayText("Output file: ", finalOutputPath, ""),
            Say("Total size: <size>"),
            SayText("Hidden file: ", CString(header.filename), " (<size>)")>>
    /\ embedded' = [path |-> finalOutputPath, hostPath |-> hostFilePath,
                    hiddenPath |-> hiddenFilePath, offset |-> Size(hostData),
                    earlier |-> IF embedded # NoEmbed /\ hostFilePath = embedded.path
                                THEN Append(embedded.earlier, embedded.hiddenPath)
                                ELSE << >>]
    /\ UNCHANGED <<fs, mode, engine, hideLocals, extractLocals, header,
                   hiddenData, error, stderr, tamper, call, race>>

\* main(), mode "decode": UniversalSteganography("", stegoImage,
\* outputFile).extractFile(), in a new process.  The model runs decode on a
\* raw file, or on the file the embed before it wrote.
StartDecode(stegoImage, outputFile) ==
    /\ \/ pc = "idle" /\ stegoImage \in RawArgs
       \/ pc = "exit" /\ mode = "encode" /\ exitCode = 0 /\ stegoImage = embedded.path
    /\ mode' = "decode"
    /\ hiddenFilePath' = << >>
    /\ hostFilePath' = stegoImage
    /\ outputFilePath' = outputFile
    /\ hiddenSize' = 0 /\ hostSize' = 0 /\ maxAllowed' = 0
    /\ hostData' = << >> /\ output' = << >> /\ finalOutputPath' = << >>
    /\ header' = StegoHeader(<<0, 0, 0, 0>>)
    /\ hiddenData' = << >>
    /\ exitCode' = -1
    /\ pc' = "extract1"
    /\ stdout' = Banner("  INITIATING FILE EXTRACTION PROCESS")
    /\ stderr' = << >>
    /\ UNCHANGED <<fs, extractLocals, error, history, call, race>>

\* [1/4] Validating file access
Extract1 ==
    /\ pc = "extract1"
    /\ LET e == validateFileAccess(fs, hostFilePath)
           said == Append(stdout, Say("[1/4] Validating file access..."))
       IN  IF e # NoError THEN Fail(e) /\ stdout' = said
           ELSE /\ Proceed("extract2")
                /\ stdout' = Append(said, Say("      * File validated"))
    /\ UNCHANGED <<fs, mode, engine, hideLocals, extractLocals, header,
                   hiddenData, history, call, race>>

\* [2/4] Reading stego file
Extract2 ==
    /\ pc = "extract2"
    /\ LET r == readFile(fs, hostFilePath)
           said == Append(stdout, Say("[2/4] Reading stego file..."))
       IN  IF r.error # NoError THEN Fail(r.error) /\ stdout' = said /\ UNCHANGED data
           ELSE /\ data' = r.value
                /\ Proceed("extract3")
                /\ stdout' = Append(said, Say("      * File size: <size>"))
    /\ UNCHANGED <<fs, mode, engine, hideLocals, found, headerOffset,
                   extractedFilename, header, hiddenData, history, call, race>>

\* [3/4] Searching for hidden data: the size test, the backward scan, and
\* the header read again at the offset the scan chose
Extract3 ==
    /\ pc = "extract3"
    /\ LET said == Append(stdout, Say("[3/4] Searching for hidden data..."))
       IN
       IF Size(data) < SizeofStegoHeader
       THEN /\ Fail(Throw("InvalidFormatException",
                          "File too small to contain hidden data"))
            /\ stdout' = said
            /\ UNCHANGED <<found, headerOffset, header>>
       ELSE \E bytes \in {Unpack(data)} : \E s \in {ScanBackwards(bytes)} :
            LET h == HeaderAt(bytes, s.headerOffset)
            IN  /\ found' = s.found
                /\ headerOffset' = s.headerOffset
                /\ IF ~s.found
                   THEN /\ Fail(Throw("InvalidFormatException",
                                      "No hidden data found in file"))
                        /\ stdout' = said
                        /\ UNCHANGED header
                   ELSE /\ header' = h
                        /\ IF ~validate(h)
                           THEN /\ Fail(Throw("InvalidFormatException",
                                              "Invalid or corrupted header"))
                                /\ stdout' = said
                           ELSE /\ Proceed("extract4")
                                /\ \E name \in NameStrings(h) :
                                      stdout' = said \o
                                        <<Say("      * Hidden data located"),
                                          SayText("      * Original filename: ",
                                                  name, ""),
                                          Say("      * Hidden file size: <size>")>>
    /\ UNCHANGED <<fs, mode, engine, hideLocals, data, extractedFilename,
                   hiddenData, history, call, race>>

\* SizeMismatch with the bound one byte too far
SizeMismatchOffByOne(hiddenDataOffset, hiddenFileSize, size) ==
    U32GtNat(hiddenFileSize, size - hiddenDataOffset + 1)

\* The condition of the size test: hiddenDataOffset + hiddenFileSize >
\* data.size(), computed in size_t without wrap-around
SizeMismatch(hiddenDataOffset, hiddenFileSize, size) ==
    U32GtNat(hiddenFileSize, size - hiddenDataOffset)

\* Slice with its first iterator one byte early
SliceShifted(bytes, from, n) == Part(bytes, from - 1, n)

\* vector(data.begin() + from, data.begin() + from + n); a byte taken from
\* beyond the end of data has no defined value and is shown as -1
Slice(bytes, from, n) ==
    Cat(Part(bytes, from, n), Run(from + n - Size(bytes), -1))

\* Extract4 with the slice taken and written before the size test
Extract4WriteFirst ==
    /\ pc = "extract4"
    /\ LET hiddenDataOffset == headerOffset + SizeofStegoHeader
           bytes == Part(data, hiddenDataOffset, Size(data))
       IN  \E name \in NameStrings(header) :
           LET path == generateOutputFilename(outputFilePath, name)
               w == writeFile(fs, path, bytes)
           IN
           /\ hiddenData' = bytes
           /\ extractedFilename' = path
           /\ fs' = w.files
           /\ IF w.error # NoError
              THEN Fail(w.error)
              ELSE IF SizeMismatch(hiddenDataOffset, header.hiddenFileSize, Size(data))
                   THEN Fail(Throw("InvalidFormatException",
                                   "Corrupted file: size mismatch"))
                   ELSE Proceed("extractReport")
    /\ stdout' = Append(stdout, Say("[4/4] Extracting hidden file..."))
    /\ UNCHANGED <<mode, engine, hideLocals, data, found, headerOffset, header,
                   history, call, race>>

\* [4/4] Extracting hidden file: the size test, the slice, the output name
\* and the write
Extract4 ==
    /\ pc = "extract4"
    /\ LET hiddenDataOffset == headerOffset + SizeofStegoHeader
       IN  IF SizeMismatch(hiddenDataOffset, header.hiddenFileSize, Size(data))
           THEN /\ Fail(Throw("InvalidFormatException",
                              "Corrupted file: size mismatch"))
                /\ UNCHANGED <<fs, hiddenData, extractedFilename>>
           ELSE \E name \in NameStrings(header) :
                LET bytes == Slice(data, hiddenDataOffset,
                                   U32ToNat(header.hiddenFileSize))
                    path == generateOutputFilename(outputFilePath, name)
                    w == writeFile(fs, path, bytes)
                IN  /\ hiddenData' = bytes
                    /\ extractedFilename' = path
                    /\ fs' = w.files
                    /\ IF w.error # NoError
                       THEN Fail(w.error)
                       ELSE Proceed("extractReport")
    /\ stdout' = Append(stdout, Say("[4/4] Extracting hidden file..."))
    /\ UNCHANGED <<mode, engine, hideLocals, data, found, headerOffset, header,
                   history, call, race>>

\* The report statements; extractFile returns and main() returns 0
ExtractReport ==
    /\ pc = "extractReport"
    /\ pc' = "exit"
    /\ exitCode' = 0
    /\ stdout' = stdout \o <<Say("      * File extracted successfully")>> \o
          Banner("  * EXTRACTION COMPLETED SUCCESSFULLY") \o
          <<SayText("Extracted file: ", extractedFilename, ""),
            Say("File size: <size>")>>
    /\ UNCHANGED <<fs, mode, engine, hideLocals, extractLocals, header,
                   hiddenData, error, stderr, history, call, race>>

\* ------------------------------------------------------------------------
\* The environment: a stego file is corrupted after it was written
\* ------------------------------------------------------------------------

\* Values written over the payloadSize field: one more than the bytes that
\* follow the header, and the largest uint32_t
CorruptSizes(remaining) == {U32OfNat(remaining + 1), [hi |-> 65535, lo |-> 65535]}

\* The file with the header at offset off replaced by h
PutHeader(bytes, off, h) ==
    Cat(Cat(Take(bytes, off), Pack(serializeHeader(h))),
        Drop(bytes, off + SizeofStegoHeader))

\* The payloadSize field of the embedded header is overwritten with a size
\* that exceeds the bytes after the header; with fixed, the checksum field is
\* rewritten to match
CorruptPayloadSize(newSize, fixed) ==
    /\ pc = "exit" /\ mode = "encode" /\ exitCode = 0
    /\ tamper = NoTamper
    /\ LET bytes == fs[embedded.path]
           off == embedded.offset
           h == deserializeHeader(Unpack(Part(bytes, off, SizeofStegoHeader)))
           h1 == [h EXCEPT !.hiddenFileSize = newSize]
           h2 == IF fixed THEN [h1 EXCEPT !.checksum = calculateChecksum(h1)] ELSE h1
       IN  /\ newSize \in CorruptSizes(Size(bytes) - off - SizeofStegoHeader)
           /\ fs' = [fs EXCEPT ![embedded.path] = PutHeader(bytes, off, h2)]
    /\ tamper' = [field |-> "payloadSize", fixed |-> fixed]
    /\ UNCHANGED <<pc, mode, engine, hideLocals, extractLocals, header,
                   hiddenData, error, exitCode, streams, embedded, call, race>>

\* ------------------------------------------------------------------------
\* Specification
\* ------------------------------------------------------------------------

\* "rec"
RecPath == <<114, 101, 99>>

\* The decode runs of the model, as <<stegoImage, outputFile>>: a raw file or
\* the file the embed wrote, with every output path; a corrupted file with
\* the output path "rec"
DecodeRuns ==
    {<<s, o>> : s \in RawArgs, o \in DecodeOutArgs} \cup
    {<<embedded.path, o>> : o \in IF tamper = NoTamper THEN DecodeOutArgs ELSE {RecPath}}

Next ==
    \/ \E args \in BadArgLists : BadArguments(args)
    \/ \E r \in EncodeRuns : StartEncode(r[1], r[2], r[3])
    \/ Hide1
    \/ Hide2
    \/ Hide3
    \/ Hide4
    \/ \E pad \in PadChoices : Hide5(pad)
    \/ HideReport
    \/ \E r \in DecodeRuns : StartDecode(r[1], r[2])
    \/ Extract1
    \/ Extract2
    \/ Extract3
    \/ Extract4
    \/ ExtractReport
    \/ \E remaining \in {Size(hiddenData)}, fixed \in BOOLEAN :
          \E n \in CorruptSizes(remaining) : CorruptPayloadSize(n, fixed)

Spec == Init /\ [][Next]_vars

\* ------------------------------------------------------------------------
\* Chained embeds: the file one encode run wrote is the host of the next
\* ------------------------------------------------------------------------

\* The longest chain of encode runs
MaxChain == 2

\* "next", an output path other than "out"
NextPath == <<110, 101, 120, 116>>

ChainPayloads == {HelloPath, EmptyPath, MagicPath, CafePath, NetsPath}

\* main(), mode "encode", in a new process, with the file the encode run
\* before it wrote as coverImage
StartEncodeOnOutput(secretFile, outputImage) ==
    /\ pc = "exit" /\ mode = "encode" /\ exitCode = 0
    /\ tamper = NoTamper
    /\ Len(embedded.earlier) + 1 < MaxChain
    /\ hiddenFilePath' = secretFile
    /\ hostFilePath' = embedded.path
    /\ outputFilePath' = outputImage
    /\ hiddenSize' = 0 /\ hostSize' = 0 /\ maxAllowed' = 0
    /\ hostData' = << >> /\ output' = << >> /\ finalOutputPath' = << >>
    /\ header' = StegoHeader(<<0, 0, 0, 0>>)
    /\ hiddenData' = << >>
    /\ exitCode' = -1
    /\ pc' = "hide1"
    /\ stdout' = Banner("  INITIATING FILE HIDING PROCESS")
    /\ UNCHANGED <<fs, mode, extractLocals, error, stderr, history, call, race>>

ChainNext ==
    \/ \E s \in ChainPayloads : StartEncode(CoverPath(0), s, OutPath)
    \/ Hide1
    \/ Hide2
    \/ Hide3
    \/ Hide4
    \/ \E pad \in PadChoices : Hide5(pad)
    \/ HideReport
    \/ \E s \in ChainPayloads, o \in {OutPath, NextPath} : StartEncodeOnOutput(s, o)
    \/ StartDecode(embedded.path, RecPath)
    \/ Extract1
    \/ Extract2
    \/ Extract3
    \/ Extract4
    \/ ExtractReport

ChainSpec == Init /\ [][ChainNext]_vars

\* ------------------------------------------------------------------------
\* The HTTP wrapper: the path it takes from the process's standard output
\* ------------------------------------------------------------------------

\* The flag i of the pattern: letters compare without regard to case
LowerCase(c) == IF c \in 65..90 THEN c + 32 ELSE c

\* \s of the pattern, for single bytes
IsSpace(c) == c \in {9, 10, 11, 12, 13, 32}

\* The indexes of text at which the label (its characters up to the colon)
\* matches
PatternAt(text, chars) ==
    {a \in 1..(Len(text) - Len(chars) + 1) :
        \A i \in 1..Len(chars) : LowerCase(text[a + i - 1]) = LowerCase(chars[i])}

\* \s*(.+) applied to text from index a, then trim(): the white space is
\* skipped, the capture runs to the end of the line, which is the next line
\* terminator in text or else the statement's closing text rest, and white
\* space at its end is dropped.  << >> when text holds nothing to capture.
Capture(text, a, rest) ==
    LET starts == {i \in a..Len(text) : ~IsSpace(text[i])}
    IN  IF starts = {} THEN << >>
        ELSE LET from == CHOOSE i \in starts : \A j \in starts : i <= j
                 ends == {i \in from..Len(text) : text[i] \in {10, 13}}
                 upto == IF ends = {} THEN Len(text)
                         ELSE (CHOOSE i \in ends : \A j \in ends : i <= j) - 1
                 kept == {i \in from..upto : ~IsSpace(text[i])}
                 last == CHOOSE i \in kept : \A j \in kept : j <= i
             IN  IF ends = {} /\ rest # ""
                 THEN <<[text |-> SubSeq(text, from, upto), rest |-> rest]>>
                 ELSE <<[text |-> SubSeq(text, from, last), rest |-> ""]>>

\* stdout.match(/<label>\s*(.+)/i) and match[1].trim(): the first match in
\* the stream.  A statement matches through its own fixed text when that is
\* the label, or else inside the name it inserts.  << >> when nothing
\* matches, otherwise the path taken: characters, and fixed text after them.
WrapperPath(out, label, chars) ==
    LET HitsOf(k) ==
            IF out[k].label = label
            THEN Capture(out[k].text, 1, out[k].rest)
            ELSE LET at == PatternAt(out[k].text, chars)
                 IN  IF at = {} THEN << >>
                     ELSE Capture(out[k].text,
                                  (CHOOSE a \in at : \A b \in at : a <= b) + Len(chars),
                                  out[k].rest)
        hits == {k \in 1..Len(out) : HitsOf(k) # << >>}
    IN  IF hits = {} THEN << >>
        ELSE HitsOf(CHOOSE k \in hits : \A j \in hits : k <= j)

\* ------------------------------------------------------------------------
\* Runs that fail, and runs whose output path names one of their inputs
\* ------------------------------------------------------------------------

\* Encode runs: one that succeeds, three that fail on an input, one that
\* fails in the write, and two told to write over the host and over the
\* payload
FrameEncodeRuns ==
    {<<CoverPath(0), HelloPath, OutPath>>,
     <<SmallPath, HelloPath, OutPath>>,
     <<CoverPath(0), MissingPath, OutPath>>,
     <<MissingPath, HelloPath, OutPath>>,
     <<CoverPath(0), BoundaryPath(Capacity(MIN_HOST_SIZE) + 1), OutPath>>,
     <<CoverPath(0), HelloPath, <<111, 46, 100, 47, 120>> >>,
     <<CoverPath(0), HelloPath, CoverPath(0)>>,
     <<CoverPath(0), NotesPath, NotesPath>>}

\* Decode runs: raw files, most of which fail, and the file the embed wrote,
\* to "rec" and over itself
FrameDecodeRuns ==
    {<<s, RecPath>> : s \in RawArgs \cup {LongPath, FakePath}} \cup
    {<<embedded.path, o>> : o \in {RecPath, embedded.path}}

FrameNext ==
    \/ \E args \in BadArgLists : BadArguments(args)
    \/ \E r \in FrameEncodeRuns : StartEncode(r[1], r[2], r[3])
    \/ Hide1
    \/ Hide2
    \/ Hide3
    \/ Hide4
    \/ \E pad \in PadChoices : Hide5(pad)
    \/ HideReport
    \/ \E r \in FrameDecodeRuns : StartDecode(r[1], r[2])
    \/ Extract1
    \/ Extract2
    \/ Extract3
    \/ Extract4
    \/ ExtractReport

FrameSpec == Init /\ [][FrameNext]_vars

\* ------------------------------------------------------------------------
\* The environment: another process rewrites an input file of a running
\* encode between getFileSize and readFile
\* ------------------------------------------------------------------------

\* What the other process leaves in the file: nothing, three bytes, or the
\* old bytes with 9000 more
Rewritten(old) == {<< >>, Pack(<<1, 2, 3>>), Cat(old, Run(9000, 5))}

\* The other process rewrites the payload file or the host file, once,
\* after step 2 took the sizes and before step 4 reads the files
RewriteInput(path, bytes) ==
    /\ mode = "encode" /\ pc \in {"hide3", "hide4"}
    /\ tamper = NoTamper
    /\ path \in {hiddenFilePath, hostFilePath}
    /\ bytes \in Rewritten(fs[path])
    /\ bytes # fs[path]
    /\ fs' = [fs EXCEPT ![path] = bytes]
    /\ tamper' = [field |-> "input", fixed |-> FALSE]
    /\ UNCHANGED <<pc, mode, engine, hideLocals, extractLocals, header,
                   hiddenData, error, exitCode, streams, embedded, call, race>>

RewriteRuns ==
    {<<CoverPath(0), s, OutPath>> : s \in {HelloPath, EmptyPath, MagicPath, NotesPath}}

RewriteNext ==
    \/ \E r \in RewriteRuns : StartEncode(r[1], r[2], r[3])
    \/ Hide1
    \/ Hide2
    \/ Hide3
    \/ Hide4
    \/ \E pad \in PadChoices : Hide5(pad)
    \/ HideReport
    \/ \E path \in {hiddenFilePath, hostFilePath} \cap DOMAIN fs :
          \E bytes \in Rewritten(fs[path]) : RewriteInput(path, bytes)

RewriteSpec == Init /\ [][RewriteNext]_vars

\* ------------------------------------------------------------------------
\* validate() called on its own, on headers of every kind
\* ------------------------------------------------------------------------

\* The headers handed to validate(): each field takes its usual value and
\* unusual ones; the checksum field holds the sum of the other fields, that
\* sum plus one, or zero
ValidateSubjects ==
    {[h EXCEPT !.checksum = IF k = 0 THEN calculateChecksum(h)
                            ELSE IF k = 1 THEN U32Add(calculateChecksum(h), U32OfNat(1))
                            ELSE U32OfNat(0)] :
        h \in [magic : {MAGIC_SIGNATURE, [hi |-> 21332, lo |-> 17743], U32OfNat(0)},
               version : {VERSION, 2, 65535},
               hiddenFileSize : {U32OfNat(0), U32OfNat(5), [hi |-> 65535, lo |-> 65535]},
               filenameLength : {0, 3, 255, 256, 300, 65535},
               filename : {Zeros(MAX_FILENAME_LENGTH),
                           <<97, 98, 99>> \o Zeros(MAX_FILENAME_LENGTH - 3),
                           [i \in 1..MAX_FILENAME_LENGTH |-> 200] \o << >>},
               checksum : {U32OfNat(0)},
               pad : {<<0, 0, 0, 0>>}],
        k \in {0, 1, 2}}

ValidateInit ==
    /\ NoRun
    /\ NoRace
    /\ subject \in ValidateSubjects
    /\ verdict = << >>
    /\ large = NoLarge

\* header.validate()
ValidateCall ==
    /\ verdict = << >>
    /\ verdict' = <<validate(subject)>>
    /\ UNCHANGED <<subject, large, run, race>>

ValidateNext == ValidateCall

ValidateSpec == ValidateInit /\ [][ValidateNext]_vars

\* ------------------------------------------------------------------------
\* hideFile on files of 2^32 bytes and more: sizes in the width of size_t
\* ------------------------------------------------------------------------

\* a < b for size_t values
WideLess(a, b) ==
    \E k \in 1..4 : a[k] < b[k] /\ \A j \in (k + 1)..4 : a[j] = b[j]

\* a * k for a factor k of at most 100 and a product below 2^64
WideTimes(a, k) ==
    LET p1 == a[1] * k
        p2 == a[2] * k + p1 \div 65536
        p3 == a[3] * k + p2 \div 65536
        p4 == a[4] * k + p3 \div 65536
    IN  <<p1 % 65536, p2 % 65536, p3 % 65536, p4 % 65536>>

\* floor(a / d) for a divisor d of at most 100
WideDiv(a, d) ==
    LET x4 == a[4]
        x3 == (x4 % d) * 65536 + a[3]
        x2 == (x3 % d) * 65536 + a[2]
        x1 == (x2 % d) * 65536 + a[1]
    IN  <<x1 \div d, x2 \div d, x3 \div d, x4 \div d>>

\* a - n for a natural number n below 65536 and a >= n
WideMinus(a, n) ==
    IF a[1] >= n THEN <<a[1] - n, a[2], a[3], a[4]>>
    ELSE IF a[2] > 0 THEN <<a[1] + 65536 - n, a[2] - 1, a[3], a[4]>>
    ELSE IF a[3] > 0 THEN <<a[1] + 65536 - n, 65535, a[3] - 1, a[4]>>
    ELSE <<a[1] + 65536 - n, 65535, 65535, a[4] - 1>>

\* static_cast<size_t>(hostSize * 0.85) on size_t values: floor(85 *
\* hostSize / 100); the hosts of LargeHostSizes lie where the double
\* product rounds to the same integer
ScaleByRatioWide(hostSz) == WideDiv(WideTimes(hostSz, RatioNum), RatioDen)

\* validateAndCalculateMaxSize on size_t values: the exception it throws
validateAndCalculateMaxSizeWide(hiddenSz, hostSz) ==
    IF WideLess(hostSz, WideOfNat(MIN_HOST_SIZE))
    THEN Throw("FileSizeException", "Host file too small")
    ELSE IF WideLess(ScaleByRatioWide(hostSz), WideOfNat(SizeofStegoHeader))
         THEN Throw("FileSizeException", "Host file too small to hide any data")
         ELSE IF WideLess(WideMinus(ScaleByRatioWide(hostSz), SizeofStegoHeader), hiddenSz)
              THEN Throw("FileSizeException",
                         "The file to hide exceeds the allowable size")
              ELSE NoError

\* static_cast<uint32_t>(hiddenSize): the low 32 bits
CastToUint32(w) == [hi |-> w[2], lo |-> w[1]]

\* createHeader for a size_t hiddenSize
createHeaderWide(hiddenFilename, hiddenSz, pad) ==
    LET h == [createHeader(hiddenFilename, 0, pad) EXCEPT
                 !.hiddenFileSize = CastToUint32(hiddenSz)]
    IN  [h EXCEPT !.checksum = calculateChecksum(h)]

\* Host sizes: 10239, 10240, 20000, 2^32, 6 * 2^32 and 12 * 2^32 bytes
LargeHostSizes ==
    {WideOfNat(10239), WideOfNat(10240), WideOfNat(20000),
     <<0, 0, 1, 0>>, <<0, 0, 6, 0>>, <<0, 0, 12, 0>>}

\* Payload sizes: 0, 5, 8428, 2^32 - 1, 2^32, 2^32 + 5, 2 * 2^32 + 7,
\* 3 * 2^32 and 9 * 2^32 bytes
LargeHiddenSizes ==
    {WideOfNat(0), WideOfNat(5), WideOfNat(8428), <<65535, 65535, 0, 0>>,
     <<0, 0, 1, 0>>, <<5, 0, 1, 0>>, <<7, 0, 2, 0>>, <<0, 0, 3, 0>>, <<0, 0, 9, 0>>}

\* Step 2 of hideFile has taken the sizes
LargeInit ==
    /\ NoRun
    /\ NoRace
    /\ subject = StegoHeader(<<0, 0, 0, 0>>)
    /\ verdict = << >>
    /\ \E hiddenSz \in LargeHiddenSizes, hostSz \in LargeHostSizes :
          large = [NoLarge EXCEPT !.step = "hide3", !.hiddenSize = hiddenSz,
                                  !.hostSize = hostSz]

\* Step 3 of hideFile
CheckLarge ==
    /\ large.step = "hide3"
    /\ LET e == validateAndCalculateMaxSizeWide(large.hiddenSize, large.hostSize)
       IN  large' = [large EXCEPT !.error = e,
                                  !.step = IF e = NoError THEN "hide5" ELSE "exit"]
    /\ UNCHANGED <<subject, verdict, run, race>>

\* Step 5 of hideFile: createHeader(hiddenFilePath, hiddenSize)
BuildLarge(pad) ==
    /\ large.step = "hide5"
    /\ large' = [large EXCEPT !.header = createHeaderWide(HelloPath, large.hiddenSize, pad),
                              !.step = "built"]
    /\ UNCHANGED <<subject, verdict, run, race>>

LargeNext ==
    \/ CheckLarge
    \/ \E pad \in PadChoices : BuildLarge(pad)

LargeSpec == LargeInit /\ [][LargeNext]_vars

\* ------------------------------------------------------------------------
\* Two processes in writeFile on the same path
\* ------------------------------------------------------------------------

\* "output/stego-1.png": the path both processes were given
RacePath == <<111, 117, 116, 112, 117, 116, 47, 115, 116, 101, 103, 111, 45, 49, 46, 112, 110, 103>>

\* The output buffers a process may hold: four bytes 1; two bytes 2; a byte
\* 3 and two bytes 4
RaceOutputs == {Run(4, 1), Run(2, 2), Cat(Run(1, 3), Run(2, 4))}

Writers == {1, 2}

RaceInit ==
    /\ NoRun
    /\ NoCall
    /\ writers \in [Writers -> {[pc |-> "start", data |-> d] : d \in RaceOutputs}]
    /\ finished = << >>

\* ofstream file(filename, ios::binary): the file is created, or cut to no
\* bytes if it exists, and the stream's position is 0
OpenOutput(w) ==
    /\ writers[w].pc = "start"
    /\ fs' = (RacePath :> << >>) @@ fs
    /\ writers' = [writers EXCEPT ![w].pc = "opened"]
    /\ UNCHANGED finished

\* The file after bytes were written at its start through a stream opened
\* earlier: the bytes, then what the file held beyond them
WrittenOver(old, bytes) == Cat(bytes, Drop(old, Size(bytes)))

\* file.write(data.data(), data.size()): the bytes go to the stream's
\* position, which is still 0
WriteOutput(w) ==
    /\ writers[w].pc = "opened"
    /\ fs' = [fs EXCEPT ![RacePath] = WrittenOver(fs[RacePath], writers[w].data)]
    /\ writers' = [writers EXCEPT ![w].pc = "written"]
    /\ finished' = Append(finished, w)

\* file.close(); writeFile returns
CloseOutput(w) ==
    /\ writers[w].pc = "written"
    /\ writers' = [writers EXCEPT ![w].pc = "done"]
    /\ UNCHANGED <<fs, finished>>

RaceNext ==
    /\ \E w \in Writers : OpenOutput(w) \/ WriteOutput(w) \/ CloseOutput(w)
    /\ UNCHANGED <<pc, mode, engine, hideLocals, extractLocals, header, hiddenData,
                   error, exitCode, streams, history, call>>

RaceSpec == RaceInit /\ [][RaceNext]_vars

\* ------------------------------------------------------------------------
\* Vocabulary of the properties.  These definitions state what the
\* specification says in terms of bytes and offsets; they use none of the
\* operators above that model the code's functions.
\* ------------------------------------------------------------------------

\* The header equation on the window at offset i (0-based) of bytes (a
\* sequence of bytes, not packed), read at
\* the offsets of the code's layout: the first four bytes are 4E 45 54 53 and
\* the last four hold, little-endian and modulo 2^32, magic + version +
\* payloadSize + filenameLength + the first filenameLength filename bytes
WindowSatisfies(bytes, i) ==
    /\ bytes[i + 1] = 78 /\ bytes[i + 2] = 69 /\ bytes[i + 3] = 84 /\ bytes[i + 4] = 83
    /\ LET nameLen == bytes[i + 13] + 256 * bytes[i + 14]
           counted == IF nameLen < 256 THEN nameLen ELSE 256
           sum == U32Add(U32Add(U32Add(U32Add(
                      U32FromBytes(78, 69, 84, 83),
                      U32FromBytes(bytes[i + 5], bytes[i + 6], 0, 0)),
                      U32FromBytes(bytes[i + 9], bytes[i + 10],
                                   bytes[i + 11], bytes[i + 12])),
                      U32FromBytes(bytes[i + 13], bytes[i + 14], 0, 0)),
                      U32OfNat(SumRange(bytes, i + 15, i + 14 + counted)))
       IN  U32FromBytes(bytes[i + 273], bytes[i + 274],
                        bytes[i + 275], bytes[i + 276]) = sum

\* The offsets of bytes, among lo..hi, whose window satisfies the equation
SatisfyingOffsets(bytes, lo, hi) ==
    {i \in lo..Min(hi, Len(bytes) - 276) : WindowSatisfies(bytes, i)}

\* No window of the packed string p after offset off satisfies the equation
NoneAfterHeader(p, off) ==
    \A bytes \in {Unpack(Drop(p, off + 1))} :
        SatisfyingOffsets(bytes, 0, Len(bytes)) = {}

\* The final path component of path: what follows its last '/' or '\'
IsFinalComponent(name, path) ==
    /\ Len(name) <= Len(path)
    /\ name = SubSeq(path, Len(path) - Len(name) + 1, Len(path))
    /\ \A i \in 1..Len(name) : name[i] \notin {47, 92}
    /\ Len(name) < Len(path) => path[Len(path) - Len(name)] \in {47, 92}

\* An encode run has returned 0 and its file has not been touched since
EmbedDone == mode = "encode" /\ pc = "exit" /\ exitCode = 0 /\ tamper = NoTamper

\* A decode run has ended (with main's return value in exitCode) after it
\* read its input file
DecodeDone == mode = "decode" /\ pc = "exit" /\ error.kind # "FileAccessException"

\* A decode run has ended on the untouched file an encode run wrote
RoundTripDone == DecodeDone /\ embedded # NoEmbed /\ tamper = NoTamper

\* A decode run has ended on an embed's file whose payloadSize field was
\* overwritten with more than the bytes that follow the header
CorruptedDone == DecodeDone /\ embedded # NoEmbed /\ tamper.field = "payloadSize"

\* ------------------------------------------------------------------------
\* Properties
\* ------------------------------------------------------------------------

CarriesNameOf(h, path) ==
    \E k \in 0..Len(path) :
        LET name == SubSeq(path, Len(path) - k + 1, Len(path))
            kept == IF k < 255 THEN k ELSE 255
        IN  /\ IsFinalComponent(name, path)
            /\ h.filenameLength = kept
            /\ Len(h.filename) = 256
            /\ \A i \in 1..256 : h.filename[i] = IF i <= kept THEN name[i] ELSE 0

C3_OutputLayout ==
    EmbedDone =>
        LET f == fs[finalOutputPath]
            h == fs[hostFilePath]
            q == fs[hiddenFilePath]
            n == Size(h)
            w == Unpack(Part(f, n, SizeofStegoHeader))
        IN  /\ Size(f) = n + SizeofStegoHeader + Size(q)
            /\ Take(f, n) = h
            /\ WindowSatisfies(w, 0)
            /\ U32FromBytes(w[9], w[10], w[11], w[12]) = U32OfNat(Size(q))
            /\ Drop(f, n + SizeofStegoHeader) = q

\* An embed of five bytes into the host of 20,000 zero bytes has succeeded
C3_Witness ==
    /\ EmbedDone
    /\ hostFilePath = ZerosPath
    /\ hiddenFilePath = HelloPath
    /\ Size(fs[finalOutputPath]) > 20000

\* C4, as stated: the serialized header is 272 bytes, with payloadSize at
\* byte 6, filenameLength at byte 10, the filename at byte 12 and the
\* checksum at byte 268, so the file embed writes is hostSize + 272 +
\* payloadSize bytes long.
C4_HeaderIs272Bytes ==
    EmbedDone =>
        LET f == fs[finalOutputPath]
            n == Size(fs[hostFilePath])
            q == fs[hiddenFilePath]
            w == Unpack(Part(f, n, 272))
        IN  /\ Size(f) = n + 272 + Size(q)
            /\ U32FromBytes(w[7], w[8], w[9], w[10]) = U32OfNat(Size(q))
            /\ U16FromBytes(w[11], w[12]) = header.filenameLength
            /\ SubSeq(w, 13, 268) = header.filename
            /\ U32FromBytes(w[269], w[270], w[271], w[272]) = header.checksum

\* C5, as stated: for an accepted payload and a host of at least 10240
\* bytes, the capacity maxPayloadSize returns is floor(hostSize * 0.85) - 272.
C5_CapacityMinus272 ==
    (mode = "encode" /\ pc \in {"hide4", "hide5", "hideReport", "exit"} /\
     error = NoError) =>
        maxAllowed = (Size(fs[hostFilePath]) * 85) \div 100 - 272

\* C6: for a host of at least 10240 bytes, embed succeeds when the payload's
\* size is at most the capacity (in particular equal to it) and is rejected
\* with a size error exactly when it is larger (in particular capacity + 1);
\* the capacity is floor(hostSize * 0.85) less the header's width.
C6_CapacityBoundary ==
    (/\ mode = "encode"
     /\ pc = "exit"
     /\ error.kind # "FileAccessException"
     /\ Size(fs[hostFilePath]) >= 10240) =>
        LET capacity == (Size(fs[hostFilePath]) * 85) \div 100 - SizeofStegoHeader
        IN  /\ Size(fs[hiddenFilePath]) <= capacity =>
                (exitCode = 0 /\ error = NoError)
            /\ Size(fs[hiddenFilePath]) > capacity =>
                (exitCode = 1 /\ error.kind = "FileSizeException")

\* An embed of a payload of exactly the capacity has succeeded
C6_Witness ==
    /\ EmbedDone
    /\ Size(fs[hiddenFilePath]) =
           (Size(fs[hostFilePath]) * 85) \div 100 - SizeofStegoHeader

\* C7: embed into a host shorter than 10240 bytes fails with a size error
\* whatever the payload's size; embed of a 0-byte payload into a host of
\* exactly 10240 bytes succeeds.
C7_MinimumHost ==
    (mode = "encode" /\ pc = "exit" /\ error.kind # "FileAccessException") =>
        /\ Size(fs[hostFilePath]) < 10240 =>
               (exitCode = 1 /\ error.kind = "FileSizeException")
        /\ (Size(fs[hostFilePath]) = 10240 /\ Size(fs[hiddenFilePath]) = 0) =>
               exitCode = 0

\* An embed of the 0-byte payload into a host of 10239 bytes has failed
C7_Witness ==
    /\ mode = "encode" /\ pc = "exit"
    /\ Size(fs[hostFilePath]) = 10239
    /\ Size(fs[hiddenFilePath]) = 0
    /\ exitCode = 1
    /\ error.kind = "FileSizeException"

\* C8: extract on a file none of whose windows satisfies the header
\* equation fails with a format error ("No hidden data found" once the file
\* is a header long) and never succeeds.
C8_NoHeaderExtraction ==
    (/\ DecodeDone
     /\ \A bytes \in {Unpack(data)} : SatisfyingOffsets(bytes, 0, Len(bytes)) = {}) =>
        /\ exitCode = 1
        /\ error.kind = "InvalidFormatException"
        /\ Size(data) >= SizeofStegoHeader =>
               error.what = "No hidden data found in file"

\* Extract on a 300-byte file that holds no header has failed
C8_Witness ==
    /\ DecodeDone
    /\ hostFilePath = PlainPath
    /\ Size(data) = 300
    /\ exitCode = 1
    /\ error.what = "No hidden data found in file"

\* The offsets of bytes that hold the magic bytes 4E 45 54 53
MagicOffsets(bytes) ==
    {i \in 0..(Len(bytes) - 4) :
        bytes[i + 1] = 78 /\ bytes[i + 2] = 69 /\ bytes[i + 3] = 84 /\ bytes[i + 4] = 83}

C10_AlwaysSizeMismatch ==
    CorruptedDone =>
        /\ exitCode = 1
        /\ error = Throw("InvalidFormatException", "Corrupted file: size mismatch")

\* C10, amended: after such a corruption, and when no other window of the
\* file satisfies the header equation, extract fails with a format error:
\* "size mismatch" if the corrupted header still satisfies the equation (its
\* checksum was rewritten to match), "No hidden data found" if it does not.
\* Extract never takes a byte from beyond the end of the data.
C10_TruncationDetection ==
    /\ (/\ CorruptedDone
        /\ \A bytes \in {Unpack(data)} :
               SatisfyingOffsets(bytes, 0, Len(bytes)) \subseteq {embedded.offset}) =>
           /\ exitCode = 1
           /\ error.kind = "InvalidFormatException"
           /\ error.what =
                  IF WindowSatisfies(Unpack(Part(data, embedded.offset, 276)), 0)
                  THEN "Corrupted file: size mismatch"
                  ELSE "No hidden data found in file"
    /\ mode = "decode" =>
           /\ \A k \in 1..Len(hiddenData) : hiddenData[k][2] # -1
           /\ headerOffset + Size(hiddenData) <= Size(data)

\* Extract on a file whose payloadSize field and checksum were rewritten has
\* failed with "size mismatch"
C10_Witness ==
    /\ CorruptedDone
    /\ tamper.fixed
    /\ exitCode = 1
    /\ error.what = "Corrupted file: size mismatch"

\* The sum the checksum field is compared with: magic + version +
\* payloadSize + filenameLength + the first filenameLength bytes of the
\* filename field (all 256 when filenameLength is larger), modulo 2^32
HeaderSum(h) ==
    LET counted == IF h.filenameLength < 256 THEN h.filenameLength ELSE 256
    IN  U32Add(U32Add(U32Add(U32Add(h.magic, U32OfNat(h.version)), h.hiddenFileSize),
                      U32OfNat(h.filenameLength)),
               U32OfNat(SumRange(h.filename, 1, counted)))

\* C11: validate() returns true exactly when the header's magic is
\* 0x5354454E and its checksum field equals the recomputed sum; the version,
\* the range of filenameLength and the payload size take no part.
C11_ValidIff ==
    verdict # << >> =>
        (verdict[1] <=> (/\ subject.magic = [hi |-> 21332, lo |-> 17742]
                         /\ subject.checksum = HeaderSum(subject)))

\* validate() has accepted a header of version 2 with filenameLength 300
\* and the largest payload size
C11_Witness ==
    /\ verdict = <<TRUE>>
    /\ subject.version = 2
    /\ subject.filenameLength = 300
    /\ subject.hiddenFileSize = [hi |-> 65535, lo |-> 65535]

\* C12, as stated: every header the engine works with, built by embed or
\* accepted by the scan of extract, has filenameLength <= 255.
C12_FilenameLengthAtMost255 ==
    /\ (mode = "encode" /\ pc \in {"hideReport", "exit"}) => header.filenameLength <= 255
    /\ (mode = "decode" /\ found) => header.filenameLength <= 255

\* The largest index of s that holds one of chars, 0 if none does
LastIndex(s, chars) ==
    IF \E i \in 1..Len(s) : s[i] \in chars
    THEN CHOOSE i \in 1..Len(s) : s[i] \in chars /\ \A j \in (i + 1)..Len(s) : s[j] \notin chars
    ELSE 0

\* What follows the last '/' or '\' of path
FinalComponentOf(path) == SubSeq(path, LastIndex(path, {47, 92}) + 1, Len(path))

\* The extension of a file name: its last '.' and what follows, as written;
\* nothing if it holds no '.'
ExtensionOf(name) ==
    IF LastIndex(name, {46}) = 0 THEN << >>
    ELSE SubSeq(name, LastIndex(name, {46}), Len(name))

\* path has a '.' after its last path separator
HasExtension(path) == LastIndex(path, {46}) > LastIndex(path, {47, 92})

\* C13, as stated: a successful embed writes its file to the caller's output
\* path with the host file's extension appended if that path has no
\* extension, and to the caller's path unchanged otherwise, for every output
\* path, the empty one included.
C13_EmbedOutputPath ==
    EmbedDone =>
        LET expected ==
                IF HasExtension(outputFilePath) THEN outputFilePath
                ELSE outputFilePath \o ExtensionOf(FinalComponentOf(hostFilePath))
        IN  /\ finalOutputPath = expected
            /\ expected \in DOMAIN fs
            /\ fs[expected] = output

\* C14, as stated: a successful extract writes the payload to "extracted_" +
\* header.filename if the caller's path is empty, to the caller's path with
\* the original filename's extension appended if that path is not empty and
\* has no extension, and to the caller's path verbatim otherwise.
C14_ExtractOutputPath ==
    (DecodeDone /\ exitCode = 0) =>
        LET original == CString(header.filename)
            expected ==
                IF outputFilePath = << >>
                THEN <<101, 120, 116, 114, 97, 99, 116, 101, 100, 95>> \o original
                ELSE IF HasExtension(outputFilePath) THEN outputFilePath
                ELSE outputFilePath \o ExtensionOf(original)
        IN  /\ extractedFilename = expected
            /\ expected \in DOMAIN fs
            /\ fs[expected] = hiddenData

\* The part of text that starts at index a and ends before the next line
\* feed
SegmentFrom(text, a) ==
    LET feeds == {i \in a..Len(text) : text[i] = 10}
    IN  IF feeds = {} THEN SubSeq(text, a, Len(text))
        ELSE SubSeq(text, a, (CHOOSE i \in feeds : \A j \in feeds : i <= j) - 1)

\* The parts of text that follow a line feed: each starts a line of its own
LaterSegments(text) == {SegmentFrom(text, i + 1) : i \in {j \in 1..Len(text) : text[j] = 10}}

StartsWith(s, prefix) == Len(s) >= Len(prefix) /\ SubSeq(s, 1, Len(prefix)) = prefix

\* The paths p for which the stream out holds a line that starts with the
\* label (given as a string and as its characters) followed by p: the
\* statements with that label, and the lines that a line feed inside an
\* inserted name starts with that label
ReportedPaths(out, label, chars) ==
    {SegmentFrom(out[k].text, 1) : k \in {j \in 1..Len(out) : out[j].label = label}} \cup
    UNION {{SubSeq(s, Len(chars) + 1, Len(s)) :
               s \in {t \in LaterSegments(out[k].text) : StartsWith(t, chars)}} :
           k \in 1..Len(out)}

\* "Output file: ", "Extracted file: "
OutputFileLabel == <<79, 117, 116, 112, 117, 116, 32, 102, 105, 108, 101, 58, 32>>

ExtractedFileLabel == <<69, 120, 116, 114, 97, 99, 116, 101, 100, 32, 102, 105, 108, 101, 58, 32>>

\* C15, as stated: a run emits the line "Output file: <path>" (embed) or
\* "Extracted file: <path>" (extract) if and only if it succeeds, only after
\* the file was written, and <path> is the path that was written.
C15_ReportLineIffSuccess ==
    /\ mode = "encode" =>
          /\ \A p \in ReportedPaths(stdout, "Output file: ", OutputFileLabel) :
                 exitCode = 0 /\ p = finalOutputPath /\ p \in DOMAIN fs
          /\ (pc = "exit" /\ exitCode = 0) =>
                 ReportedPaths(stdout, "Output file: ", OutputFileLabel) # {}
    /\ mode = "decode" =>
          /\ \A p \in ReportedPaths(stdout, "Extracted file: ", ExtractedFileLabel) :
                 exitCode = 0 /\ p = extractedFilename /\ p \in DOMAIN fs
          /\ (pc = "exit" /\ exitCode = 0) =>
                 ReportedPaths(stdout, "Extracted file: ", ExtractedFileLabel) # {}

\* C16, as stated: the process returns 0 exactly when the embed or extract
\* it was asked for ran to completion; every exception, a wrong number of
\* arguments and an unknown mode end with 1 and a diagnostic on the error
\* stream.
C16_ExitCodes ==
    pc \in {"exit", "exitUsage"} =>
        /\ exitCode \in {0, 1}
        /\ exitCode = 0 <=>
               (pc = "exit" /\ error = NoError /\
                \E k \in 1..Len(stdout) :
                    stdout[k].label \in {"  * OPERATION COMPLETED SUCCESSFULLY",
                                         "  * EXTRACTION COMPLETED SUCCESSFULLY"})
        /\ exitCode = 1 => stderr # << >>

\* C17, as stated: when two invocations write the same output path
\* concurrently, after both have finished the file holds exactly the
\* complete output of the one whose write finished last.
C17_LastWriterWins ==
    (\A w \in Writers : writers[w].pc = "done") =>
        fs[RacePath] = writers[finished[Len(finished)]].data

\* The header equation on the 272-byte window at offset i of bytes, read at
\* the offsets of the specification's layout: magic at 0, version at 4,
\* payloadSize at 6, filenameLength at 10, filename at 12, checksum at 268
PackedWindowSatisfies(bytes, i) ==
    /\ bytes[i + 1] = 78 /\ bytes[i + 2] = 69 /\ bytes[i + 3] = 84 /\ bytes[i + 4] = 83
    /\ LET nameLen == bytes[i + 11] + 256 * bytes[i + 12]
           counted == IF nameLen < 256 THEN nameLen ELSE 256
           sum == U32Add(U32Add(U32Add(U32Add(
                      U32FromBytes(78, 69, 84, 83),
                      U32FromBytes(bytes[i + 5], bytes[i + 6], 0, 0)),
                      U32FromBytes(bytes[i + 7], bytes[i + 8],
                                   bytes[i + 9], bytes[i + 10])),
                      U32FromBytes(bytes[i + 11], bytes[i + 12], 0, 0)),
                      U32OfNat(SumRange(bytes, i + 13, i + 12 + counted)))
       IN  U32FromBytes(bytes[i + 269], bytes[i + 270],
                        bytes[i + 271], bytes[i + 272]) = sum

\* C18, as stated: extract probes the offsets data.length - 272 down to 1
\* and never offset 0; the header offset it uses is the largest of them
\* whose 272-byte window is valid, and when there is none (also when the
\* only valid window starts at offset 0) it fails with "No hidden data
\* found".
C18_BackwardScan ==
    (DecodeDone /\ Size(data) >= 272) =>
        \A bytes \in {Unpack(data)} :
            LET valid == {i \in 1..(Len(bytes) - 272) : PackedWindowSatisfies(bytes, i)}
            IN  IF valid = {}
                THEN ~found /\ error.what = "No hidden data found in file"
                ELSE found /\ \A i \in valid : i <= headerOffset /\ headerOffset \in valid

\* The header embed has built, and the one read back from the bytes embed
\* placed after the host's
HeaderBuilt == mode = "encode" /\ pc \in {"hideReport", "exit"} /\ output # << >>

HeaderReadBack == deserializeHeader(Unpack(Part(output, Size(hostData), SizeofStegoHeader)))

\* C19: every header createHeader returns passes validate(): its magic is
\* 0x5354454E and its checksum is magic + version + payloadSize +
\* filenameLength + the first filenameLength filename bytes as unsigned
\* values, modulo 2^32; and the header read back from its serialized bytes
\* has the same field values.
C19_BuiltHeaderValid ==
    HeaderBuilt =>
        /\ validate(header)
        /\ header.magic = [hi |-> 21332, lo |-> 17742]
        /\ header.checksum = HeaderSum(header)
        /\ \A back \in {HeaderReadBack} :
              /\ back.magic = header.magic
              /\ back.version = header.version
              /\ back.hiddenFileSize = header.hiddenFileSize
              /\ back.filenameLength = header.filenameLength
              /\ back.filename = header.filename
              /\ back.checksum = header.checksum

\* embed has built and written the header of the payload whose name holds
\* the bytes 195 and 169, with padding bytes that are not zero
C19_Witness ==
    /\ HeaderBuilt
    /\ exitCode = 0
    /\ hiddenFilePath = CafePath
    /\ header.filenameLength = 9
    /\ header.filename[4] = 195
    /\ header.pad # <<0, 0, 0, 0>>

\* C20: the test after the scan never fails: whenever the scan of extract
\* has found a header, the header read again at the offset it chose passes
\* validate(), and no run ends with "Invalid or corrupted header".
C20_RecheckRedundant ==
    /\ error.what # "Invalid or corrupted header"
    /\ (mode = "decode" /\ found /\ pc \in {"extract4", "exit"}) =>
           /\ validate(header)
           /\ \A bytes \in {Unpack(data)} :
                 /\ headerOffset \in 1..(Len(bytes) - SizeofStegoHeader)
                 /\ WindowSatisfies(bytes, headerOffset)

\* extract has found the header of an embed's output, whose padding bytes
\* are not zero, read it again and gone on to return the payload
C20_Witness ==
    /\ mode = "decode" /\ pc = "exit" /\ exitCode = 0
    /\ found
    /\ tamper = NoTamper
    /\ hostFilePath = embedded.path
    /\ headerOffset = embedded.offset
    /\ header.pad # <<0, 0, 0, 0>>

\* C21, as stated: extract fails with "File too small to contain hidden
\* data" exactly when the file holds fewer than 272 bytes; a file of 272
\* bytes or more reaches the scan.
C21_TooSmallIffBelow272 ==
    DecodeDone =>
        (error.what = "File too small to contain hidden data" <=> Size(data) < 272)

\* A decode run has ended on the untouched file that the last of two or
\* more chained encode runs wrote
ChainDecodeDone == RoundTripDone /\ embedded.earlier # << >>

\* No payload of the chain holds a window that satisfies the header equation
NoPayloadHoldsHeader ==
    \A p \in {embedded.hiddenPath} \cup {embedded.earlier[k] : k \in DOMAIN embedded.earlier} :
        \A bytes \in {Unpack(fs[p])} :
            \A i \in 0..(Len(bytes) - SizeofStegoHeader) : ~WindowSatisfies(bytes, i)

\* extract has returned the payload of the last encode run of the chain
\* under the name that run stored
LastPayloadReturned ==
    /\ exitCode = 0
    /\ headerOffset = embedded.offset
    /\ hiddenData = fs[embedded.hiddenPath]
    /\ fs[extractedFilename] = fs[embedded.hiddenPath]
    /\ CarriesNameOf(header, embedded.hiddenPath)

\* C22, as stated: when no payload of a chain of embeds holds a
\* checksum-valid header window of its own, extract on the final file
\* returns the payload of the most recent embed and its filename.
C22_ChainReturnsLastPayload ==
    (ChainDecodeDone /\ NoPayloadHoldsHeader) => LastPayloadReturned

\* C22, amended: extract on the final file of a chain returns the payload
\* of the most recent embed and its filename whenever no window that starts
\* after the most recent header, inside the payload or across the end of
\* that header, satisfies the header equation.
C22_ChainedEmbeds ==
    (ChainDecodeDone /\ NoneAfterHeader(data, embedded.offset)) => LastPayloadReturned

\* extract on a file that holds hello.txt and, embedded after it, the
\* payload with the magic bytes has returned the latter
C22_Witness ==
    /\ ChainDecodeDone
    /\ NoneAfterHeader(data, embedded.offset)
    /\ embedded.earlier = <<HelloPath>>
    /\ embedded.hiddenPath = MagicPath
    /\ exitCode = 0
    /\ hiddenData = MagicBytes

\* C23, as stated: in every file embed has written, the payloadSize of the
\* header is the number of payload bytes that follow the header, and the
\* sizes are the ones the capacity check approved, also when another
\* process rewrote an input between the size query and the read.
C23_StoredSizeIsAppendedSize ==
    (mode = "encode" /\ pc = "exit" /\ exitCode = 0 /\ tamper.field # "payloadSize") =>
        \A file \in {fs[finalOutputPath]} :
            \A h \in {deserializeHeader(Unpack(Part(file, Size(hostData), SizeofStegoHeader)))} :
                /\ U32ToNat(h.hiddenFileSize) = Size(file) - Size(hostData) - SizeofStegoHeader
                /\ Size(hiddenData) = hiddenSize
                /\ Size(hostData) = hostSize
                /\ hostSize >= MIN_HOST_SIZE
                /\ hiddenSize <= maxAllowed

\* C24, as stated: for every payload that passes the capacity check, the
\* payloadSize field of the header built equals the payload's byte length;
\* a length of 2^32 or more is not stored modulo 2^32.
C24_SizeFieldWithoutWrap ==
    large.step = "built" =>
        <<large.header.hiddenFileSize.lo, large.header.hiddenFileSize.hi, 0, 0>>
            = large.hiddenSize

\* The paths whose file a step creates, removes or changes
ChangedPaths ==
    {p \in DOMAIN fs \cup DOMAIN fs' :
        \/ p \notin DOMAIN fs
        \/ p \notin DOMAIN fs'
        \/ fs[p] # fs'[p]}

\* The failures the claim lists: an access error on an input, a size error,
\* a format error
InputFailure(e) ==
    \/ e.kind \in {"FileSizeException", "InvalidFormatException"}
    \/ e.kind = "FileAccessException" /\ e.what # "Cannot create output file"

\* A step of a run in which the run ends with one of those failures
FailingStep == pc # "exit" /\ pc' = "exit" /\ exitCode' = 1 /\ InputFailure(error')

\* The file system changes only in the step of hideFile or extractFile that
\* calls writeFile, only when the write succeeds, and only at the final
\* output path
WritesOnlyOutput ==
    ChangedPaths # {} =>
        /\ pc \in {"hide5", "extract4"}
        /\ pc' \in {"hideReport", "extractReport"}
        /\ ChangedPaths \subseteq
              {IF pc = "hide5" THEN finalOutputPath' ELSE extractedFilename'}

\* C25, as stated: an operation that fails with an access error on an
\* input, a size error or a format error has created, truncated and written
\* no file, and neither operation ever modifies its input files.
C25_InputsNeverModified ==
    [][/\ FailingStep => fs' = fs
       /\ WritesOnlyOutput
       /\ \A p \in {hiddenFilePath, hostFilePath} \cap DOMAIN fs :
             p \in DOMAIN fs' /\ fs'[p] = fs[p]]_vars

\* C25, amended: an operation that fails with an access error on an input,
\* a size error or a format error has created, truncated and written no
\* file; an operation changes the file system only by its one successful
\* write, at its final output path, so an input file is modified only when
\* that path names it.
C25_FailedOperationFrame ==
    [][/\ FailingStep => fs' = fs
       /\ WritesOnlyOutput]_vars

\* extract has failed with a size mismatch on inject.bin, after the scan
\* and the size test, and every file is as it was
C25_Witness ==
    /\ mode = "decode" /\ pc = "exit" /\ exitCode = 1
    /\ hostFilePath = InjectPath
    /\ error.what = "Corrupted file: size mismatch"
    /\ fs = InitialFiles

\* C26, as stated: every header the scan of extract accepts has a NUL byte
\* inside its 256-byte filename field, so reading header.filename as a
\* terminated string stays inside the field.
C26_AcceptedNameTerminated ==
    (mode = "decode" /\ found /\ pc \in {"extract4", "extractReport", "exit"}) =>
        \E i \in 1..MAX_FILENAME_LENGTH : header.filename[i] = 0

\* "Output file:", "Extracted file:"
OutputFilePattern == <<79, 117, 116, 112, 117, 116, 32, 102, 105, 108, 101, 58>>

ExtractedFilePattern == <<69, 120, 116, 114, 97, 99, 116, 101, 100, 32, 102, 105, 108, 101, 58>>

\* C27, as stated: on a successful run the first match of the wrapper's
\* pattern in the standard output is the final report line, so the path the
\* wrapper takes is the path that was written, whatever the payload's name
\* or the name stored in the header holds.
C27_WrapperTakesWrittenPath ==
    (pc = "exit" /\ exitCode = 0) =>
        /\ mode = "encode" =>
              WrapperPath(stdout, "Output file: ", OutputFilePattern)
                  = <<[text |-> finalOutputPath, rest |-> ""]>>
        /\ mode = "decode" =>
              WrapperPath(stdout, "Extracted file: ", ExtractedFilePattern)
                  = <<[text |-> extractedFilename, rest |-> ""]>>

====
